---- MODULE Spec2Model ----
(***************************************************************************)
(* moorage/instancelogger: an error reporter that forwards errors to a     *)
(* Google backend (pubsub topic or Stackdriver logger) and falls back to   *)
(* the local log.  The repository holds three revisions of the one file:   *)
(*   "pubsub"  - src/instancelogger.go  (New + Init returning an error)    *)
(*   "logging" - src/unnamed/part_000   (Stackdriver logging, singleton)   *)
(*   "legacy"  - src/unnamed/part_001   (New connects, Init binds a topic) *)
(* The owner goroutine calls New, Init, Stop and WaitGroup.Wait; Error is  *)
(* called from concurrent goroutines and is modelled step by step.         *)
(***************************************************************************)
EXTENDS Integers, Sequences, FiniteSets, TLC

NIL == "nil"

Variants == {"pubsub", "logging", "legacy"}

\* Bound of the model: the calls of Init, Stop, Wait and Error made in a run.
MaxCalls == 3

\* Every Error call runs in a goroutine of its own, so that all the Error
\* calls of a run can be in progress at once.
Goroutines == 1..MaxCalls

\* The errors the application reports, each written as its Error() text: the
\* odd calls report one, the even calls the other.
ErrorOf(g) == IF g % 2 = 1 THEN "disk full" ELSE "oops"

\* What a metadata lookup (c.ProjectID(), c.InstanceName()) can answer: a value,
\* a net.Error whose Timeout() is true, a net.Error whose Timeout() is false,
\* or an error that is no net.Error (metadata.NotDefinedError on a 404).
MetaOutcomes == {"ok", "timeout", "neterr", "othererr"}

\* The error value a failed lookup hands back, as its text.
MetaErr(kind, outcome) ==
    CASE kind = "ProjectID" /\ outcome = "timeout" -> "ProjectID: i/o timeout"
      [] kind = "ProjectID" /\ outcome = "neterr" -> "ProjectID: connection refused"
      [] kind = "ProjectID" /\ outcome = "othererr" -> "ProjectID: not defined"
      [] kind = "InstanceName" /\ outcome = "timeout" -> "InstanceName: i/o timeout"
      [] kind = "InstanceName" /\ outcome = "neterr" -> "InstanceName: connection refused"
      [] kind = "InstanceName" /\ outcome = "othererr" -> "InstanceName: not defined"
      [] OTHER -> "nil"

\* The error of a failed pubsub.NewClient / logging.NewClient.
ClientErr == "NewClient: dial failed"

\* err.(net.Error) succeeds
IsNetError(outcome) == outcome \in {"timeout", "neterr"}

\* err.(net.Error).Timeout()
Timeout(outcome) == outcome = "timeout"

VARIABLES
    variant,      \* which revision of the file runs
    constructed,  \* New has returned a logger
    crashed,      \* the process died of a panic
    il,           \* the InstanceLogger's fields
    made,         \* number of contexts created so far (resource ids)
    created,      \* resources created: <<kind, id>>
    released,     \* resources released: <<kind, id>>
    call,         \* per goroutine: the Error call in progress / last made
    wg,           \* the sync.WaitGroup's counter
    buffered,     \* messages handed to a topic / logger and not yet sent:
                  \* <<topic id, number of the Error call>>
    life,         \* history: calls made so far
    last,         \* history: the most recent API call, its inputs and result
    waitSaw       \* history: what was still going on when Wait() returned

vars == <<variant, constructed, crashed, il, made, created, released, call, wg,
          buffered, life, last, waitSaw>>

\* The zero value of the struct InstanceLogger.  Field topic is il.topic
\* (pubsub, legacy) or il.logger (logging); waitGroup is TRUE when a
\* *sync.WaitGroup was supplied.  clientOption only selects between two
\* NewClient calls of the same outcome and is left out.
\* Contexts, clients and topics are numbered 1, 2, ... as they are made; a nil
\* ctx, cancelFunc, client or topic is 0.
ZeroIL ==
    [errorTopicName |-> NIL, instanceName |-> NIL, projectID |-> NIL,
     ctx |-> 0, cancelFunc |-> 0, client |-> 0, topic |-> 0,
     waitGroup |-> FALSE]

\* An Error call: where it stands (pc), the error reported, its number, the
\* lifecycle state it was made in, the backend operations it has performed, the
\* lines it has written to the local log, the publish result it waits for and
\* the context it waits with.
IdleCall ==
    [pc |-> "idle", err |-> NIL, n |-> 0, at |-> NIL, ops |-> <<>>, out |-> <<>>,
     res |-> "none", ctx |-> 0]

\* An API call of the owner: its arguments, what the metadata service answered
\* during it ("unused": the arguments made the code skip the lookup), what it
\* returned and the backend operations it performed.
NoCall ==
    [op |-> "none", optProj |-> NIL, optInst |-> NIL, projRes |-> "unused",
     instRes |-> "unused", ret |-> "none", ops |-> {}]

Init ==
    /\ variant \in Variants
    /\ constructed = FALSE
    /\ crashed = FALSE
    /\ il = ZeroIL
    /\ made = 0
    /\ created = {}
    /\ released = {}
    /\ call = [g \in Goroutines |-> IdleCall]
    /\ wg = 0
    /\ buffered = {}
    /\ life = [newCalled |-> FALSE, initCalled |-> FALSE, initOK |-> FALSE,
               stopped |-> FALSE, stops |-> 0, calls |-> 0, errors |-> 0]
    /\ last = NoCall
    /\ waitSaw = [returned |-> FALSE, running |-> FALSE, unflushed |-> FALSE]

\* ---------------------------------------------------------------- lookups

\* if perr != nil { if !perr.(net.Error).Timeout() { return perr } } else { set }
\* The outcome of one metadata lookup inside New / Init: "set" the field,
\* "ignore" a timeout, "return" the error, or "panic" on the type assertion.
LookupStep(outcome) ==
    CASE outcome = "ok" -> "set"
      [] ~IsNetError(outcome) -> "panic"
      [] Timeout(outcome) -> "ignore"
      [] OTHER -> "return"

\* ---------------------------------------------------------------- Init

\* Init of the pubsub and logging revisions, run on the fields il0 with the
\* fresh resource id `id`.  Gives the fields when the call ends, what it
\* returns ("nil", an error text, or "panic"), the backend operations it
\* performed (the metadata lookups among them) and the resources it created.
InitResult(il0, id, topicName, optInst, optProj, projRes, clientRes, instRes) ==
    LET il1 == [il0 EXCEPT !.errorTopicName = topicName,
                           !.instanceName = IF optInst # NIL THEN optInst ELSE @,
                           !.projectID = IF optProj # NIL THEN optProj ELSE @]
        pstep == IF optProj = NIL THEN LookupStep(projRes) ELSE "ignore"
        il2 == IF pstep = "set" THEN [il1 EXCEPT !.projectID = "proj-meta"] ELSE il1
        il3 == [il2 EXCEPT !.ctx = id, !.cancelFunc = id]
        il4 == [il3 EXCEPT !.client = id, !.topic = id]
        istep == IF optInst = NIL THEN LookupStep(instRes) ELSE "ignore"
        il5 == IF istep = "set" THEN [il4 EXCEPT !.instanceName = "inst-meta"] ELSE il4
        pask == IF optProj = NIL THEN {<<"ProjectID", 0>>} ELSE {}
        iask == IF optInst = NIL THEN {<<"InstanceName", 0>>} ELSE {}
        dial == {<<"NewClient", id>>}
        all == {<<"ctx", id>>, <<"client", id>>, <<"topic", id>>}
    IN  CASE pstep = "panic" ->
               [il |-> il1, ret |-> "panic", ops |-> pask, created |-> {}]
          [] pstep = "return" ->
               [il |-> il1, ret |-> MetaErr("ProjectID", projRes), ops |-> pask,
                created |-> {}]
          [] il3.projectID = NIL ->  \* *il.projectID on a nil pointer
               [il |-> il3, ret |-> "panic", ops |-> pask,
                created |-> {<<"ctx", id>>}]
          [] clientRes = "err" ->
               [il |-> il3, ret |-> ClientErr, ops |-> pask \cup dial,
                created |-> {<<"ctx", id>>}]
          [] istep = "panic" ->
               [il |-> il4, ret |-> "panic", ops |-> pask \cup dial \cup iask,
                created |-> all]
          [] istep = "return" ->
               [il |-> il4, ret |-> MetaErr("InstanceName", instRes),
                ops |-> pask \cup dial \cup iask, created |-> all]
          [] OTHER ->
               [il |-> il5, ret |-> "nil", ops |-> pask \cup dial \cup iask,
                created |-> all]

\* Init of the legacy revision: it binds a topic on the client New made and
\* returns nothing.
LegacyInitResult(il0, id, topicName, optInst) ==
    [il |-> [il0 EXCEPT !.errorTopicName = topicName,
                        !.instanceName = IF optInst # NIL THEN optInst ELSE @,
                        !.topic = id],
     ret |-> "nil", ops |-> {}, created |-> {<<"topic", id>>}]

\* New of the legacy revision: context, client, then the two lookups.  A
\* failure returns (nil, err): field `ok` says whether a logger came back.
LegacyNewResult(id, optProj, wgSupplied, projRes, clientRes, instRes) ==
    LET il1 == [ZeroIL EXCEPT !.projectID = optProj, !.waitGroup = wgSupplied,
                              !.ctx = id, !.cancelFunc = id]
        il2 == [il1 EXCEPT !.client = id]
        pstep == IF optProj = NIL THEN LookupStep(projRes) ELSE "ignore"
        il3 == IF pstep = "set" THEN [il2 EXCEPT !.projectID = "proj-meta"] ELSE il2
        istep == LookupStep(instRes)
        il4 == IF istep = "set" THEN [il3 EXCEPT !.instanceName = "inst-meta"] ELSE il3
        both == {<<"ctx", id>>, <<"client", id>>}
        pask == IF optProj = NIL THEN {<<"ProjectID", 0>>} ELSE {}
        iask == {<<"InstanceName", 0>>}
        dial == {<<"NewClient", id>>}
    IN  CASE optProj = NIL ->  \* *optionalProjectID on a nil pointer
               [ok |-> FALSE, il |-> ZeroIL, ret |-> "panic", ops |-> {},
                created |-> {<<"ctx", id>>}]
          [] clientRes = "err" ->
               [ok |-> FALSE, il |-> ZeroIL, ret |-> ClientErr,
                ops |-> dial, created |-> {<<"ctx", id>>}]
          [] pstep = "panic" ->
               [ok |-> FALSE, il |-> ZeroIL, ret |-> "panic",
                ops |-> dial \cup pask, created |-> both]
          [] pstep = "return" ->
               [ok |-> FALSE, il |-> ZeroIL, ret |-> MetaErr("ProjectID", projRes),
                ops |-> dial \cup pask, created |-> both]
          [] istep = "panic" ->
               [ok |-> FALSE, il |-> ZeroIL, ret |-> "panic",
                ops |-> dial \cup pask \cup iask, created |-> both]
          [] istep = "return" ->
               [ok |-> FALSE, il |-> ZeroIL,
                ret |-> MetaErr("InstanceName", instRes),
                ops |-> dial \cup pask \cup iask, created |-> both]
          [] OTHER ->
               [ok |-> TRUE, il |-> il4, ret |-> "nil",
                ops |-> dial \cup pask \cup iask, created |-> both]

\* New of the pubsub and logging revisions only stores its arguments.
NewResult(wgSupplied) ==
    [ok |-> TRUE, il |-> [ZeroIL EXCEPT !.waitGroup = wgSupplied], ret |-> "nil",
     ops |-> {}, created |-> {}]

OptProjs == {NIL, "proj-arg"}
OptInsts == {NIL, "inst-arg"}

\* The outcomes a lookup is drawn from: none when the argument makes the code
\* skip the lookup.
Draws(opt) == IF opt = NIL THEN MetaOutcomes ELSE {"unused"}

\* What the metadata service answered to the lookup `kind` of a call with the
\* result r: the outcome drawn for it if the call made the lookup or ended in a
\* panic (the process is gone, the service's state is all that is left),
\* "unused" if the call returned before the lookup.
Answer(r, kind, outcome) ==
    IF <<kind, 0>> \in r.ops \/ r.ret = "panic" THEN outcome ELSE "unused"

\* The owner calls New(...).
New(optProj, wgSupplied, projRes, clientRes, instRes) ==
    /\ ~crashed /\ ~life.newCalled
    /\ LET r == IF variant = "legacy"
                THEN LegacyNewResult(made + 1, optProj, wgSupplied, projRes,
                                     clientRes, instRes)
                ELSE NewResult(wgSupplied)
       IN  /\ constructed' = r.ok
           /\ crashed' = (r.ret = "panic")
           /\ il' = r.il
           /\ made' = IF r.created = {} THEN made ELSE made + 1
           /\ created' = created \cup r.created
           /\ last' = [op |-> "New", optProj |-> optProj, optInst |-> NIL,
                       projRes |-> Answer(r, "ProjectID", projRes),
                       instRes |-> Answer(r, "InstanceName", instRes),
                       ret |-> r.ret, ops |-> r.ops]
    /\ life' = [life EXCEPT !.newCalled = TRUE]
    /\ UNCHANGED <<variant, released, call, wg, buffered, waitSaw>>

\* The owner calls il.Init(...).
ILInit(optInst, optProj, projRes, clientRes, instRes) ==
    /\ ~crashed /\ constructed
    /\ life.calls < MaxCalls
    /\ LET r == IF variant = "legacy"
                THEN LegacyInitResult(il, made + 1, "errors", optInst)
                ELSE InitResult(il, made + 1, "errors", optInst, optProj, projRes,
                                clientRes, instRes)
       IN  /\ crashed' = (r.ret = "panic")
           /\ il' = r.il
           /\ made' = IF r.created = {} THEN made ELSE made + 1
           /\ created' = created \cup r.created
           /\ last' = [op |-> "Init", optProj |-> optProj, optInst |-> optInst,
                       projRes |-> Answer(r, "ProjectID", projRes),
                       instRes |-> Answer(r, "InstanceName", instRes),
                       ret |-> r.ret, ops |-> r.ops]
           /\ life' = [life EXCEPT !.calls = @ + 1, !.initCalled = TRUE,
                                   !.initOK = @ \/ r.ret = "nil",
                                   !.stopped = @ /\ r.ret # "nil"]
    /\ UNCHANGED <<variant, constructed, released, call, wg, buffered, waitSaw>>

\* ---------------------------------------------------------------- Stop

\* Stop of the pubsub and legacy revisions: topic.Stop() and cancelFunc(),
\* each if the field is set; no field is written.
PubsubStopResult(il0) ==
    [il |-> il0,
     ops |-> (IF il0.topic # 0 THEN {<<"topic.Stop", il0.topic>>} ELSE {})
             \cup (IF il0.cancelFunc # 0 THEN {<<"cancel", il0.cancelFunc>>} ELSE {}),
     released |-> (IF il0.topic # 0 THEN {<<"topic", il0.topic>>} ELSE {})
             \cup (IF il0.cancelFunc # 0 THEN {<<"ctx", il0.cancelFunc>>} ELSE {}),
     flushed |-> IF il0.topic # 0 THEN {il0.topic} ELSE {}]

\* Stop of the logging revision: client.Close() and client = nil, or else
\* cancelFunc() and cancelFunc = nil.  Closing a client flushes and closes the
\* logger made from it, which carries the client's number.
LoggingStopResult(il0) ==
    IF il0.client # 0
    THEN [il |-> [il0 EXCEPT !.client = 0],
          ops |-> {<<"client.Close", il0.client>>},
          released |-> {<<"client", il0.client>>, <<"topic", il0.client>>},
          flushed |-> {il0.client}]
    ELSE IF il0.cancelFunc # 0
    THEN [il |-> [il0 EXCEPT !.cancelFunc = 0],
          ops |-> {<<"cancel", il0.cancelFunc>>},
          released |-> {<<"ctx", il0.cancelFunc>>},
          flushed |-> {}]
    ELSE [il |-> il0, ops |-> {}, released |-> {}, flushed |-> {}]

StopResult(il0) ==
    IF variant = "logging" THEN LoggingStopResult(il0) ELSE PubsubStopResult(il0)

Outcomes == {"acked", "failed"}

\* The calls whose publish result is pending on a message of the topics in
\* `flushed`.
Pending(flushed) ==
    {g \in Goroutines :
        /\ call[g].res = "pending"
        /\ \E m \in buffered : m[1] \in flushed /\ m[2] = call[g].n}

\* The publish results after the messages of the topics in `flushed` were
\* sent: those of the calls in `failing` fail, the others are acknowledged.
Resolve(flushed, failing) ==
    [g \in Goroutines |->
        IF g \in Pending(flushed)
        THEN [call[g] EXCEPT !.res = IF g \in failing THEN "failed" ELSE "acked"]
        ELSE call[g]]

\* The owner calls il.Stop().  failing: the pending publishes that the flush
\* fails to send.
Stop(failing) ==
    /\ ~crashed /\ constructed
    /\ life.calls < MaxCalls
    /\ LET r == StopResult(il)
       IN  /\ failing \subseteq Pending(r.flushed)
           /\ il' = r.il
           /\ released' = released \cup r.released
           /\ buffered' = {m \in buffered : m[1] \notin r.flushed}
           /\ call' = Resolve(r.flushed, failing)
           /\ last' = [NoCall EXCEPT !.op = "Stop", !.ret = "nil", !.ops = r.ops]
    /\ life' = [life EXCEPT !.calls = @ + 1, !.stops = @ + 1, !.stopped = TRUE]
    /\ UNCHANGED <<variant, constructed, crashed, made, created, wg, waitSaw>>

\* ---------------------------------------------------------------- Error

\* The tag of the one line an Error call writes to the local log, by the path
\* the call took: "notinit", "pubfail" or "reported".
LogTag(v, path) ==
    IF v = "logging"
    THEN (IF path = "notinit" THEN "[ERROR:LOGGING-NOT-INIT'ED]"
          ELSE "[ERROR:REPORTED]")
    ELSE (IF path = "reported" THEN "[REPORTED_ERR]" ELSE "[ERROR]")

\* fmt.Sprintf("%v", err)
ErrString(e) == e

\* string(debug.Stack())
Stack == "goroutine [running]: runtime/debug.Stack"

\* The instance name left out of the message: always the null form.
ErrorMessageNoName(v, e, instanceName) ==
    IF v = "logging"
    THEN <<"Error", ErrString(e), "Trace", Stack, "InstanceName", NIL>>
    ELSE <<"{\"error\": \"", ErrString(e), "\", \"trace\":\"", Stack,
           "\",\"instanceName\": null}">>

\* The message an Error call publishes, as the pieces it is put together from:
\* the Sprintf format of the pubsub and legacy revisions with its arguments
\* filled in, or the fields of the struct ErrorMessage of the logging revision.
ErrorMessage(v, e, instanceName) ==
    IF v = "logging"
    THEN <<"Error", ErrString(e), "Trace", Stack, "InstanceName", instanceName>>
    ELSE IF instanceName # NIL
    THEN <<"{\"error\": \"", ErrString(e), "\", \"trace\":\"", Stack,
           "\",\"instanceName\":\"", instanceName, "\"}">>
    ELSE <<"{\"error\": \"", ErrString(e), "\", \"trace\":\"", Stack,
           "\",\"instanceName\": null}">>

\* The lifecycle state a call is made in: Init never called, no Init has
\* succeeded yet, Stop has returned since the last successful Init, or
\* initialized.
LifeNow ==
    CASE ~life.initCalled -> "uninit"
      [] ~life.initOK -> "initfailed"
      [] life.stopped -> "stopped"
      [] OTHER -> "initialized"

\* Goroutine g calls il.Error(err): the g-th Error call made.
ErrorCall(g) ==
    /\ ~crashed /\ constructed
    /\ life.calls < MaxCalls
    /\ g = life.errors + 1
    /\ call[g].pc = "idle"
    /\ call' = [call EXCEPT ![g] = [IdleCall EXCEPT !.pc = "called", !.err = ErrorOf(g),
                                       !.n = g, !.at = LifeNow]]
    /\ life' = [life EXCEPT !.errors = @ + 1, !.calls = @ + 1]
    /\ UNCHANGED <<variant, constructed, crashed, il, made, created, released,
                   wg, buffered, last, waitSaw>>

\* if il.waitGroup != nil { il.waitGroup.Add(1) }
AfterAdd(n) == IF il.waitGroup THEN n + 1 ELSE n

\* The Done() left out.
AfterDoneMissing(n) == n

\* if il.waitGroup != nil { il.waitGroup.Done() }
AfterDone(n) == IF il.waitGroup THEN n - 1 ELSE n

ErrorAdd(g) ==
    /\ ~crashed
    /\ call[g].pc = "called"
    /\ wg' = AfterAdd(wg)
    /\ call' = [call EXCEPT ![g].pc = "added"]
    /\ UNCHANGED <<variant, constructed, crashed, il, made, created, released,
                   buffered, life, last, waitSaw>>

\* The call after the test of il.topic (il.logger): the local line of the
\* not-initialized path, or the message built and handed to Publish / Log.
\* Publish on a stopped topic gives a failed result at once and buffers
\* nothing; Log always buffers.
Report(c) ==
    IF il.topic = 0
    THEN [c EXCEPT !.out = <<LogTag(variant, "notinit")>>, !.pc = "done"]
    ELSE LET msg == ErrorMessage(variant, c.err, il.instanceName)
         IN  IF variant = "logging"
             THEN [c EXCEPT !.ops = <<[op |-> "Log", topic |-> il.topic, data |-> msg]>>,
                            !.out = <<LogTag(variant, "reported")>>,
                            !.pc = "done"]
             ELSE [c EXCEPT !.ops = <<[op |-> "Publish", topic |-> il.topic, data |-> msg]>>,
                            !.res = IF <<"topic", il.topic>> \in released
                                    THEN "failed" ELSE "pending",
                            !.ctx = il.ctx,
                            !.pc = "waiting"]

\* What Report hands to the backend's buffer.
Handed(c) ==
    IF il.topic = 0 \/ (variant # "logging" /\ <<"topic", il.topic>> \in released)
    THEN {}
    ELSE {<<il.topic, c.n>>}

ErrorReport(g) ==
    /\ ~crashed
    /\ call[g].pc = "added"
    /\ call' = [call EXCEPT ![g] = Report(call[g])]
    /\ buffered' = buffered \cup Handed(call[g])
    /\ UNCHANGED <<variant, constructed, crashed, il, made, created, released,
                   wg, life, last, waitSaw>>

\* id, err := result.Get(il.ctx), then the local line.  Get returns once the
\* result is there, or with the context's error once the context is cancelled.
GetReturns(c) ==
    (IF c.res = "acked" THEN {"reported"} ELSE {})
    \cup (IF c.res = "failed" \/ <<"ctx", c.ctx>> \in released
          THEN {"pubfail"} ELSE {})

ErrorGet(g, path) ==
    /\ ~crashed
    /\ call[g].pc = "waiting"
    /\ path \in GetReturns(call[g])
    /\ call' = [call EXCEPT ![g].ops = Append(@, [op |-> "Get", topic |-> 0, data |-> <<>>]),
                            ![g].out = <<LogTag(variant, path)>>,
                            ![g].pc = "done"]
    /\ UNCHANGED <<variant, constructed, crashed, il, made, created, released,
                   wg, buffered, life, last, waitSaw>>

ErrorDone(g) ==
    /\ ~crashed
    /\ call[g].pc = "done"
    /\ wg' = AfterDone(wg)
    /\ call' = [call EXCEPT ![g] = [IdleCall EXCEPT !.pc = "returned"]]
    /\ UNCHANGED <<variant, constructed, crashed, il, made, created, released,
                   buffered, life, last, waitSaw>>

\* ---------------------------------------------------------------- backend

\* The backend client's own goroutines send one buffered message, or fail to;
\* the outcome shows only in the publish result of a call that waits for it.
Deliver(m, outcome) ==
    /\ ~crashed
    /\ m \in buffered
    /\ outcome = "failed" => \E g \in Goroutines :
                                call[g].res = "pending" /\ call[g].n = m[2]
    /\ buffered' = buffered \ {m}
    /\ call' = [g \in Goroutines |->
                  IF call[g].res = "pending" /\ call[g].n = m[2]
                  THEN [call[g] EXCEPT !.res = outcome] ELSE call[g]]
    /\ UNCHANGED <<variant, constructed, crashed, il, made, created, released,
                   wg, life, last, waitSaw>>

\* ---------------------------------------------------------------- Wait

\* The owner's optionalWaitGroup.Wait() returns: the counter is zero.
Wait ==
    /\ ~crashed /\ constructed
    /\ il.waitGroup
    /\ life.calls < MaxCalls
    /\ wg = 0
    /\ waitSaw' = [returned |-> TRUE,
                   running |-> \E g \in Goroutines : call[g].pc \notin {"idle", "returned"},
                   unflushed |-> buffered # {}]
    /\ last' = [NoCall EXCEPT !.op = "Wait", !.ret = "nil"]
    /\ life' = [life EXCEPT !.calls = @ + 1]
    /\ UNCHANGED <<variant, constructed, crashed, il, made, created, released,
                   call, wg, buffered>>

\* ---------------------------------------------------------------- Next

Next ==
    \/ \E optProj \in OptProjs, wgSupplied \in BOOLEAN, clientRes \in {"ok", "err"} :
         \E projRes \in IF variant = "legacy" THEN Draws(optProj) ELSE {"unused"},
            instRes \in IF variant = "legacy" THEN MetaOutcomes ELSE {"unused"} :
            New(optProj, wgSupplied, projRes, clientRes, instRes)
    \/ \E optInst \in OptInsts, optProj \in OptProjs, clientRes \in {"ok", "err"} :
         \E projRes \in IF variant = "legacy" THEN {"unused"} ELSE Draws(optProj),
            instRes \in IF variant = "legacy" THEN {"unused"} ELSE Draws(optInst) :
            ILInit(optInst, optProj, projRes, clientRes, instRes)
    \/ \E failing \in SUBSET {g \in Goroutines : call[g].res = "pending"} : Stop(failing)
    \/ Wait
    \/ \E g \in Goroutines : ErrorCall(g)
    \/ \E g \in Goroutines : ErrorAdd(g)
    \/ \E g \in Goroutines : ErrorReport(g)
    \/ \E g \in Goroutines, path \in {"reported", "pubfail"} : ErrorGet(g, path)
    \/ \E g \in Goroutines : ErrorDone(g)
    \/ \E m \in buffered, outcome \in Outcomes : Deliver(m, outcome)

Spec == Init /\ [][Next]_vars

\* ---------------------------------------------------------------- claims

\* The calls that have done their Add and not yet their Done.
Counted == {g \in Goroutines : call[g].pc \in {"added", "waiting", "done"}}

\* C1: with a wait group supplied, the counter is at every moment the number
\* of Error calls between their Add(1) and their Done(): never negative, and
\* back at its first value once the calls have returned, whatever path each took
\* and whatever lifecycle state it was made in.
C1_WaitGroupBalanced ==
    il.waitGroup => wg = Cardinality(Counted)

\* C1's case: a wait group, one call returned, and a call on the
\* publish-failed path about to do its Done.
C1_Witness ==
    /\ il.waitGroup
    /\ \E g \in Goroutines : call[g].pc = "returned"
    /\ \E g \in Goroutines :
          call[g].pc = "done" /\ call[g].res = "failed" /\ wg = 1

\* C2: the publish handle is non-nil only if some Init call has returned
\* without error.
C2_TopicOnlyAfterInitOK ==
    il.topic # 0 => life.initOK

\* C3: a Stop call that follows a Stop call raises no error, changes no field
\* and repeats none of the releases (topic.Stop, client.Close, cancel) of the
\* call before it.
C3_StopIdempotent ==
    [][(last.op = "Stop" /\ last'.op = "Stop" /\ life'.stops = life.stops + 1)
         => (/\ il' = il
             /\ last'.ret = "nil" /\ ~crashed'
             /\ last'.ops \cap last.ops = {})]_vars

\* The operations of a call on the backend handle.
BackendOps(c) == {i \in DOMAIN c.ops : c.ops[i].op \in {"Publish", "Log", "Get"}}

\* The messages a call has handed to Publish or Log.
Published(c) == {i \in DOMAIN c.ops : c.ops[i].op \in {"Publish", "Log"}}

\* C4: an Error call made after Stop has returned on an initialized logger
\* attempts no publish and no log-entry submission, and writes its error to
\* the local log.
C4_NoPublishAfterStop ==
    \A g \in Goroutines :
        call[g].at = "stopped" =>
            /\ Published(call[g]) = {}
            /\ call[g].pc = "done" => Len(call[g].out) = 1

\* The call that constructs and connects: New in the legacy revision, Init in
\* the other two.
Construction == IF variant = "legacy" THEN "New" ELSE "Init"

\* C5: construction with no overrides while the metadata service times out on
\* both lookups returns no error, does not crash, and leaves projectID and
\* instanceName nil.
C5_TimeoutsTolerated ==
    ( /\ last.op = Construction
      /\ last.optProj = NIL /\ last.optInst = NIL
      /\ last.projRes = "timeout" /\ last.instRes = "timeout" )
    => ( /\ last.ret = "nil" /\ ~crashed
         /\ il.projectID = NIL /\ il.instanceName = NIL )

\* C6: construction with no project ID while the project-ID lookup fails with
\* an error that is no timeout returns exactly that error, and no NewClient
\* has been attempted.
C6_LookupErrorReturned ==
    ( /\ last.op = Construction
      /\ last.optProj = NIL
      /\ last.projRes \in {"neterr", "othererr"} )
    => ( /\ last.ret = MetaErr("ProjectID", last.projRes)
         /\ \A o \in last.ops : o[1] # "NewClient" )

\* C7: an Error call on a logger on which Init has never been called performs
\* no backend operation and writes one local line, whose tag is not the tag of
\* a failed publish.
C7_NotInitLocalOnly ==
    \A g \in Goroutines :
        (call[g].at = "uninit" /\ ~life.initCalled) =>
            /\ BackendOps(call[g]) = {}
            /\ call[g].pc = "done" =>
                  /\ Len(call[g].out) = 1
                  /\ variant # "logging" =>
                        call[g].out[1] # LogTag(variant, "pubfail")

\* The fields of a published message, read back from its pieces.
PayloadError(d) == d[2]
PayloadTrace(d) == d[4]
PayloadInstanceName(d) ==
    CASE Len(d) = 7 -> d[6]
      [] Len(d) = 6 -> d[6]
      [] d[5] = "\",\"instanceName\": null}" -> NIL
      [] OTHER -> "?"

\* Goroutine g's call passes the test of il.topic in this step.
Reports(g) == call[g].pc = "added" /\ call'[g].pc # "added"

\* C8: an Error call that reaches its report on a logger with a successful Init
\* behind it makes exactly one publish call, whose payload carries the error's
\* string form, a non-empty trace, and the logger's instance name at that
\* moment (null when it is nil); no later step of the call publishes again.
C8_OnePublishWithPayload ==
    [][\A g \in Goroutines :
         /\ (Reports(g) /\ life.initOK) =>
               /\ Cardinality(Published(call'[g])) = 1
               /\ LET d == call'[g].ops[1].data
                  IN  /\ PayloadError(d) = ErrString(call[g].err)
                      /\ PayloadTrace(d) # ""
                      /\ PayloadInstanceName(d) = il.instanceName
         /\ (call[g].pc \in {"waiting", "done"} /\ call'[g].pc # "returned") =>
               Cardinality(Published(call'[g])) = Cardinality(Published(call[g]))
      ]_vars

\* C8's case: after a successful Init and before any Stop, calls have
\* published, one with an instance name and the other with null.
C8_Witness ==
    /\ life.initOK /\ ~life.stopped
    /\ \E g \in Goroutines :
          /\ call[g].pc = "done" /\ call[g].at = "initialized"
          /\ Cardinality(Published(call[g])) = 1
          /\ PayloadInstanceName(call[g].ops[1].data) = NIL
          /\ PayloadError(call[g].ops[1].data) = "disk full"

\* The resources the Init calls created: all of them, but for the context and
\* the client that New makes in the legacy revision.
CreatedByInit ==
    IF variant = "legacy" THEN {r \in created : r[1] = "topic"} ELSE created

\* C9: after Init calls followed by one Stop, every client, topic and context
\* the Init calls created has been released.
C9_NoLeakAfterStop ==
    ( /\ last.op = "Stop" /\ life.stops = 1
      /\ life.errors = 0 /\ ~waitSaw.returned )
    => CreatedByInit \subseteq released

\* C10: when the owner's Wait() returns, no Error call made before is still in
\* progress and no message handed to the backend is still buffered.
C10_WaitMeansAllPublished ==
    waitSaw.returned => (~waitSaw.running /\ ~waitSaw.unflushed)

====
